---- MODULE Spec2Model ----
(***************************************************************************)
(* A model of the CNKI EndNote bibliometrics pipeline: the record parser   *)
(* (cnki_parser.py), the corpus statistics (quick_parse), the three        *)
(* network builders (network_builder.py) and the orchestration of one run  *)
(* (main.py, app.py, test_real_data.py).                                   *)
(*                                                                         *)
(* Text is a sequence of characters, one element per code point.  A        *)
(* character is a one-element string; the CJK characters the code names    *)
(* are written as named atoms because the module is ASCII.                 *)
(***************************************************************************)
EXTENDS Integers, Sequences, FiniteSets, TLC

VARIABLES
    fileExists,   \* os.path.exists(file_path)
    content,      \* the text of the input file
    papers,       \* the list parse returned (the corpus)
    parseState,   \* "ready" | "done" | "raised": where the call of parse stands
    stats,        \* the statistics dict of quick_parse, None before it is computed
    coauth,       \* the last graph build_coauthorship returned, None before
    inst,         \* the last graph build_institution returned, None before
    keyword,      \* the last graph build_keywords returned, None before
    entry,        \* the program that runs: "cli" (main.py), "dashboard" (app.py
                  \* run_analysis), "script" (test_real_data.py), "none" for a
                  \* call of the library alone
    argGiven,     \* len(sys.argv) >= 2
    apiKey,       \* whether the DeepSeek API key is set (non-empty)
    pc,           \* the step the run is at, or how it ended
    outputDir,    \* whether the output directory has been created
    artifacts,    \* the files written to the output directory
    log,          \* the steps of the run so far, in order
    warnings,     \* the warnings and notices shown to the user
    ai_report,    \* the narrative report, None while there is none
    heap,         \* the list objects made so far: heap[r] is what list r holds
    parsed,       \* the parse calls made on one process, each with the
                  \* records it returned, their list fields as references
    calls         \* the calls made on one corpus (the statistics, the three
                  \* builders), each with its argument and the object returned

coreVars == <<fileExists, content, papers, parseState, stats, coauth, inst, keyword>>

runVars == <<entry, argGiven, apiKey, pc, outputDir, artifacts, log, warnings, ai_report>>

heapVars == <<heap, parsed, calls>>

vars == <<coreVars, runVars, heapVars>>

\* An optional value: None, or Some(v).
None == <<>>

Some(v) == <<v>>

----------------------------------------------------------------------------
(* Characters *)

\* Stand-ins for the non-ASCII characters the regular expressions name.
BEI == "<U+88AB>"        \* first character of the "cited" label
YIN == "<U+5F15>"        \* second character of the "cited" label
XIA == "<U+4E0B>"        \* first character of the "downloads" label
ZAI == "<U+8F7D>"        \* second character of the "downloads" label
FWCOLON == "<U+FF1A>"    \* fullwidth colon
FWSEMI == "<U+FF1B>"     \* fullwidth semicolon
FWCOMMA == "<U+FF0C>"    \* fullwidth comma
NIAN == "<U+5E74>"       \* the character "year"

Digits == <<"0", "1", "2", "3", "4", "5", "6", "7", "8", "9">>

IsDigit(c) == \E d \in 1..10 : Digits[d] = c

DigitVal(c) == (CHOOSE d \in 1..10 : Digits[d] = c) - 1

\* What str.strip() removes and what \s matches.
IsSpace(c) == c \in {" ", "\t", "\n", "\r", "\f"}

Min(S) == CHOOSE x \in S : \A y \in S : x <= y

Max(S) == CHOOSE x \in S : \A y \in S : x >= y

\* The elements of a finite set of integers in ascending order.
Ascending(S) == [k \in 1..Cardinality(S) |->
                    CHOOSE e \in S : Cardinality({x \in S : x < e}) = k - 1]

\* The first index from i on that holds no whitespace, Len(s) + 1 if none.
RECURSIVE SkipSpace(_, _)
SkipSpace(s, i) == IF i <= Len(s) /\ IsSpace(s[i]) THEN SkipSpace(s, i + 1) ELSE i

\* The last index up to j that holds no whitespace, 0 if none.
RECURSIVE SkipSpaceBack(_, _)
SkipSpaceBack(s, j) == IF j >= 1 /\ IsSpace(s[j]) THEN SkipSpaceBack(s, j - 1) ELSE j

\* str.strip()
Strip(s) == LET first == SkipSpace(s, 1)
                last  == SkipSpaceBack(s, Len(s))
            IN  IF first > last THEN <<>> ELSE SubSeq(s, first, last)

\* str.startswith(p)
StartsWith(s, p) == Len(s) >= Len(p) /\ SubSeq(s, 1, Len(p)) = p

\* s.split(sep) for a one-character sep, and re.split('[...]', s) for a
\* character class: the pieces between the separators, empty ones included.
SplitOn(s, seps) ==
    LET at  == Ascending({i \in 1..Len(s) : s[i] \in seps})
        n   == Len(at)
        lo(k) == IF k = 1 THEN 1 ELSE at[k - 1] + 1
        hi(k) == IF k = n + 1 THEN Len(s) ELSE at[k] - 1
    IN  [k \in 1..(n + 1) |-> SubSeq(s, lo(k), hi(k))]

\* int(s) for a non-empty string of decimal digits
RECURSIVE ToInt(_)
ToInt(s) == IF s = <<>> THEN 0
            ELSE 10 * ToInt(SubSeq(s, 1, Len(s) - 1)) + DigitVal(s[Len(s)])

\* The same comprehension without its filter: every piece, stripped.
StripKeepEmpty(pieces) == [k \in 1..Len(pieces) |-> Strip(pieces[k])]

\* [f(x) for x in s if keep(x)] with f = strip and keep = non-empty after strip
StripNonEmpty(pieces) ==
    LET stripped == [k \in 1..Len(pieces) |-> Strip(pieces[k])]
    IN  SelectSeq(stripped, LAMBDA p : p /= <<>>)

----------------------------------------------------------------------------
(* cnki_parser.py *)

MinBlockLen == 50

CnkiPaper ==
    [title |-> <<>>, authors |-> <<>>, institution |-> <<>>,
     all_institutions |-> <<>>, journal |-> <<>>, year |-> 0, volume |-> <<>>,
     issue |-> <<>>, pages |-> <<>>, keywords |-> <<>>, abstract |-> <<>>,
     doi |-> <<>>, url |-> <<>>, issn |-> <<>>, cn_code |-> <<>>,
     citations |-> 0, downloads |-> 0, cnki_id |-> None]

\* re.split(r'(?=%0\s)', content): the text is cut before every position where
\* "%0" and a whitespace character follow, wherever in a line that is.
RecordStarts(text) ==
    {i \in 1..(Len(text) - 2) :
        text[i] = "%" /\ text[i + 1] = "0" /\ IsSpace(text[i + 2])}

SplitRecords(text) ==
    LET at == Ascending(RecordStarts(text))
        n  == Len(at)
        lo(k) == IF k = 1 THEN 1 ELSE at[k - 1]
        hi(k) == IF k = n + 1 THEN Len(text) ELSE at[k] - 1
    IN  [k \in 1..(n + 1) |-> SubSeq(text, lo(k), hi(k))]

\* The same search returning the rightmost match.
YearMatchRightmost(value) ==
    LET hits == {i \in 1..(Len(value) - 3) :
                    /\ \/ value[i] = "1" /\ value[i + 1] = "9"
                       \/ value[i] = "2" /\ value[i + 1] = "0"
                    /\ IsDigit(value[i + 2])
                    /\ IsDigit(value[i + 3])}
    IN  IF hits = {} THEN None ELSE SubSeq(value, Max(hits), Max(hits) + 3)

\* re.search(r'(19|20)\d{2}', value): the text of the leftmost match, or None
YearMatch(value) ==
    LET hits == {i \in 1..(Len(value) - 3) :
                    /\ \/ value[i] = "1" /\ value[i + 1] = "9"
                       \/ value[i] = "2" /\ value[i + 1] = "0"
                    /\ IsDigit(value[i + 2])
                    /\ IsDigit(value[i + 3])}
    IN  IF hits = {} THEN None ELSE SubSeq(value, Min(hits), Min(hits) + 3)

\* re.search(label + r'[:<fullwidth colon>]?\s*(\d+)', value): group 1 of the
\* leftmost match, or None.  After the two label characters come an optional
\* colon, any whitespace and then the longest run of digits, at least one.
CountMatch(value, c1, c2) ==
    LET n == Len(value)
        afterColon(i) == IF i + 2 <= n /\ value[i + 2] \in {":", FWCOLON}
                         THEN i + 3 ELSE i + 2
        \* the first index >= j that holds no whitespace (n + 1 when there is none)
        afterSpace(j) == SkipSpace(value, j)
        \* a colon is neither whitespace nor a digit, so taking it when present
        \* is the only way the expression can match
        digitsAt(i) == afterSpace(afterColon(i))
        hits == {i \in 1..(n - 1) :
                    /\ value[i] = c1 /\ value[i + 1] = c2
                    /\ digitsAt(i) <= n
                    /\ IsDigit(value[digitsAt(i)])}
        from == digitsAt(Min(hits))
        upto == Max({k \in from..n : \A m \in from..k : IsDigit(value[m])})
    IN  IF hits = {} THEN None ELSE SubSeq(value, from, upto)

\* One iteration of the loop of _parse_record: the effect of one line on paper.
ParseLine(paper, rawLine) ==
    LET line   == Strip(rawLine)
        marker == SubSeq(line, 1, 2)
        value  == Strip(SubSeq(line, 3, Len(line)))
        institutions == StripNonEmpty(SplitOn(value, {";"}))
        kws    == StripNonEmpty(SplitOn(value, {";", FWSEMI, ",", FWCOMMA}))
        year_match == YearMatch(value)
        cite_match == CountMatch(value, BEI, YIN)
        download_match == CountMatch(value, XIA, ZAI)
    IN  IF line = <<>> \/ ~StartsWith(line, <<"%">>) THEN paper
        ELSE IF Len(line) < 2 THEN paper
        ELSE IF marker = <<"%", "T">> THEN [paper EXCEPT !.title = value]
        ELSE IF marker = <<"%", "A">> THEN
            IF value /= <<>>
            THEN [paper EXCEPT !.authors = Append(@, value)] ELSE paper
        ELSE IF marker = <<"%", "+">> THEN
            IF value /= <<>>
            THEN [paper EXCEPT !.all_institutions = institutions,
                               !.institution = IF institutions /= <<>>
                                               THEN institutions[1] ELSE <<>>]
            ELSE paper
        ELSE IF marker = <<"%", "J">> THEN [paper EXCEPT !.journal = value]
        ELSE IF marker = <<"%", "D">> THEN
            IF year_match /= None
            THEN [paper EXCEPT !.year = ToInt(year_match)] ELSE paper
        ELSE IF marker = <<"%", "V">> THEN [paper EXCEPT !.volume = value]
        ELSE IF marker = <<"%", "N">> THEN [paper EXCEPT !.issue = value]
        ELSE IF marker = <<"%", "P">> THEN [paper EXCEPT !.pages = value]
        ELSE IF marker = <<"%", "K">> THEN
            IF value /= <<>> THEN [paper EXCEPT !.keywords = kws] ELSE paper
        ELSE IF marker = <<"%", "X">> THEN [paper EXCEPT !.abstract = value]
        ELSE IF marker = <<"%", "R">> THEN [paper EXCEPT !.doi = value]
        ELSE IF marker = <<"%", "@">> THEN [paper EXCEPT !.issn = value]
        ELSE IF marker = <<"%", "L">> THEN [paper EXCEPT !.cn_code = value]
        ELSE IF marker = <<"%", "U">> THEN [paper EXCEPT !.url = value]
        ELSE IF marker = <<"%", "W">> THEN [paper EXCEPT !.cnki_id = Some(value)]
        ELSE IF marker = <<"%", "Z">> THEN
            [paper EXCEPT
                !.citations = IF cite_match /= None
                              THEN ToInt(cite_match) ELSE @,
                !.downloads = IF download_match /= None
                              THEN ToInt(download_match) ELSE @]
        ELSE paper

RECURSIVE ParseLines(_, _, _)
ParseLines(paper, lines, k) ==
    IF k > Len(lines) THEN paper
    ELSE ParseLines(ParseLine(paper, lines[k]), lines, k + 1)

\* CnkiEndNoteParser._parse_record
parse_record(record) ==
    ParseLines(CnkiPaper, SplitOn(Strip(record), {"\n"}), 1)

\* The loop of CnkiEndNoteParser.parse over the candidate blocks: a block
\* shorter than 50 characters after trimming is skipped, a decoded record
\* with an empty title is not appended.
\* The same loop without the title test of line 57.
RECURSIVE ParseBlocksKeepUntitled(_, _, _)
ParseBlocksKeepUntitled(records, k, acc) ==
    IF k > Len(records) THEN acc
    ELSE LET record == Strip(records[k])
         IN  IF record = <<>> \/ Len(record) < MinBlockLen
             THEN ParseBlocksKeepUntitled(records, k + 1, acc)
             ELSE ParseBlocksKeepUntitled(records, k + 1,
                                          Append(acc, parse_record(record)))

RECURSIVE ParseBlocks(_, _, _)
ParseBlocks(records, k, acc) ==
    IF k > Len(records) THEN acc
    ELSE LET record == Strip(records[k])
             paper  == parse_record(record)
         IN  IF record = <<>> \/ Len(record) < MinBlockLen
             THEN ParseBlocks(records, k + 1, acc)
             ELSE IF paper.title /= <<>>
                  THEN ParseBlocks(records, k + 1, Append(acc, paper))
                  ELSE ParseBlocks(records, k + 1, acc)

\* What CnkiEndNoteParser.parse returns for a file that exists.
ParseText(text) == ParseBlocks(SplitRecords(text), 1, <<>>)

----------------------------------------------------------------------------
(* quick_parse: the statistics *)

\* len(set(...)) of the non-empty values of the string field f
DistinctNonEmpty(ps, f) ==
    Cardinality({ps[k][f] : k \in 1..Len(ps)} \ {<<>>})

\* the same list with the year 2000 let through
StatsYearsFrom2000(ps) ==
    Ascending({ps[k].year : k \in {i \in 1..Len(ps) : ps[i].year >= 2000}})

\* 'years': sorted(set(p.year for p in papers if p.year > 2000))
StatsYears(ps) == Ascending({ps[k].year : k \in {i \in 1..Len(ps) : ps[i].year > 2000}})

Stats(ps) ==
    [total |-> Len(ps),
     years |-> StatsYears(ps),
     authors |-> Cardinality(UNION {{ps[k].authors[i] : i \in 1..Len(ps[k].authors)} :
                                       k \in 1..Len(ps)}),
     journals |-> DistinctNonEmpty(ps, "journal"),
     institutions |-> DistinctNonEmpty(ps, "institution")]

\* print_stats, the time-span row: years[0] and years[-1], or None for N/A
TimeSpan(st) == IF st.years /= <<>>
                THEN <<st.years[1], st.years[Len(st.years)]>>
                ELSE None

----------------------------------------------------------------------------
(* network_builder.py *)

\* nx.Graph(): the node set and the weight of each edge.  An edge is the set
\* of its endpoints, so the self-loop at u is {u}.
EmptyGraph == [nodes |-> {}, edges |-> <<>>]

\* if G.has_edge(a, b): G[a][b]['weight'] += 1  else: G.add_edge(a, b, weight=1)
CountEdge(G, a, b) ==
    IF {a, b} \in DOMAIN G.edges
    THEN [G EXCEPT !.edges = [@ EXCEPT ![{a, b}] = @ + 1]]
    ELSE [nodes |-> G.nodes \cup {a, b}, edges |-> ({a, b} :> 1) @@ G.edges]

\* for i, a in enumerate(names): for b in names[i+1:]: the pairs, in loop order
RECURSIVE PairsFrom(_, _, _)
PairsFrom(names, i, j) ==
    IF i > Len(names) THEN <<>>
    ELSE IF j > Len(names) THEN PairsFrom(names, i + 1, i + 2)
    ELSE <<<<names[i], names[j]>>>> \o PairsFrom(names, i, j + 1)

Pairs(names) == PairsFrom(names, 1, 2)

RECURSIVE CountEdges(_, _, _)
CountEdges(G, pairs, k) ==
    IF k > Len(pairs) THEN G
    ELSE CountEdges(CountEdge(G, pairs[k][1], pairs[k][2]), pairs, k + 1)

\* author_papers: for every author line of every paper, in iteration order,
\* the author and the paper (its index in the corpus) appended to its list
RECURSIVE AuthorEntries(_, _)
AuthorEntries(ps, k) ==
    IF k > Len(ps) THEN <<>>
    ELSE [i \in 1..Len(ps[k].authors) |-> [name |-> ps[k].authors[i], paper |-> k]]
         \o AuthorEntries(ps, k + 1)

\* the keys of a dict in insertion order: each name at its first appearance
RECURSIVE FirstSeen(_, _, _)
FirstSeen(names, k, acc) ==
    IF k > Len(names) THEN acc
    ELSE IF \E i \in 1..Len(acc) : acc[i] = names[k]
         THEN FirstSeen(names, k + 1, acc)
         ELSE FirstSeen(names, k + 1, Append(acc, names[k]))

AuthorPapers(ps) ==
    LET entries == SelectSeq(AuthorEntries(ps, 1), LAMBDA e : e.name /= <<>>)
        names   == [k \in 1..Len(entries) |-> entries[k].name]
        keys    == FirstSeen(names, 1, <<>>)
    IN  [keys  |-> keys,
         lists |-> [a \in {keys[k] : k \in 1..Len(keys)} |->
                      LET mine == SelectSeq(entries, LAMBDA e : e.name = a)
                      IN  [k \in 1..Len(mine) |-> mine[k].paper]]]

\* sorted(items, key=lambda x: len(x[1]), reverse=True): a stable sort, the
\* items of equal key keep their order.  Insertion of each item behind every
\* item whose key is not smaller.
RECURSIVE SortedByCount(_, _, _, _)
SortedByCount(keys, count, k, acc) ==
    IF k > Len(keys) THEN acc
    ELSE LET ahead == Cardinality({i \in 1..Len(acc) : count[acc[i]] >= count[keys[k]]})
         IN  SortedByCount(keys, count, k + 1,
                           SubSeq(acc, 1, ahead) \o <<keys[k]>>
                               \o SubSeq(acc, ahead + 1, Len(acc)))

\* top_names: the names of sorted(...)[:top_n]
TopNames(ps, top_n) ==
    LET ap     == AuthorPapers(ps)
        count  == [a \in DOMAIN ap.lists |-> Len(ap.lists[a])]
        sorted == SortedByCount(ap.keys, count, 1, <<>>)
        top    == SubSeq(sorted, 1, IF top_n < Len(sorted) THEN top_n ELSE Len(sorted))
    IN  {top[k] : k \in 1..Len(top)}

RECURSIVE SumCitations(_, _)
SumCitations(ps, idx) ==
    IF idx = <<>> THEN 0 ELSE ps[idx[1]].citations + SumCitations(ps, Tail(idx))

RECURSIVE CoauthorshipEdges(_, _, _, _)
CoauthorshipEdges(G, ps, top_names, k) ==
    IF k > Len(ps) THEN G
    ELSE LET authors == SelectSeq(ps[k].authors, LAMBDA a : a \in top_names)
         IN  CoauthorshipEdges(CountEdges(G, Pairs(authors), 1), ps, top_names, k + 1)

\* NetworkBuilder.build_coauthorship
build_coauthorship(ps, top_n) ==
    LET ap == AuthorPapers(ps)
        G  == CoauthorshipEdges(EmptyGraph, ps, TopNames(ps, top_n), 1)
    IN  [nodes |-> G.nodes,
         edges |-> G.edges,
         attrs |-> [node \in G.nodes |->
                      [paper_count |-> Len(ap.lists[node]),
                       citations   |-> SumCitations(ps, ap.lists[node])]]]

RECURSIVE InstitutionEdges(_, _, _)
InstitutionEdges(G, ps, k) ==
    IF k > Len(ps) THEN G
    ELSE LET institutions == ps[k].all_institutions
         IN  IF Len(institutions) < 2
             THEN InstitutionEdges(G, ps, k + 1)
             ELSE InstitutionEdges(CountEdges(G, Pairs(institutions), 1), ps, k + 1)

\* NetworkBuilder.build_institution
build_institution(ps) ==
    LET G == InstitutionEdges(EmptyGraph, ps, 1)
    IN  [nodes |-> G.nodes,
         edges |-> G.edges,
         attrs |-> [node \in G.nodes |->
                      [paper_count |->
                         Cardinality({k \in 1..Len(ps) :
                            \E i \in 1..Len(ps[k].all_institutions) :
                                ps[k].all_institutions[i] = node})]]]

\* The characters of the model in code point order, for comparing strings.
CodeOrder == <<"\t", "\n", "\f", "\r", " ", "%", "+", ",",
               "0", "1", "2", "3", "4", "5", "6", "7", "8", "9", ":", ";", "@",
               "A", "D", "J", "K", "L", "N", "P", "R", "T", "U", "V", "W", "X",
               "Y", "Z", "a", "e", "n", "o", "s", "t", "u", "v", "x",
               XIA, NIAN, YIN, BEI, ZAI, FWCOMMA, FWCOLON, FWSEMI>>

Ord(c) == CHOOSE i \in 1..Len(CodeOrder) : CodeOrder[i] = c

\* a < b for two strings, as Python compares them
RECURSIVE StrLess(_, _)
StrLess(a, b) ==
    IF b = <<>> THEN FALSE
    ELSE IF a = <<>> THEN TRUE
    ELSE IF a[1] = b[1] THEN StrLess(Tail(a), Tail(b))
    ELSE Ord(a[1]) < Ord(b[1])

\* tuple(sorted([kw1, kw2]))
SortedPair(kw1, kw2) == IF StrLess(kw2, kw1) THEN <<kw2, kw1>> ELSE <<kw1, kw2>>

\* every entry of every keyword list, in iteration order
RECURSIVE KeywordEntries(_, _)
KeywordEntries(ps, k) ==
    IF k > Len(ps) THEN <<>> ELSE ps[k].keywords \o KeywordEntries(ps, k + 1)

\* keyword_freq: one count for every non-empty entry of every keyword list
KeywordFreq(ps) ==
    LET entries == SelectSeq(KeywordEntries(ps, 1), LAMBDA kw : kw /= <<>>)
    IN  [kw \in {entries[k] : k \in 1..Len(entries)} |->
            Len(SelectSeq(entries, LAMBDA e : e = kw))]

\* valid_keywords
ValidKeywords(ps, min_freq) ==
    {kw \in DOMAIN KeywordFreq(ps) : KeywordFreq(ps)[kw] >= min_freq}

\* cooccurrence[pair] += 1 for the pairs of one paper whose two keywords differ
RECURSIVE CountPairs(_, _, _)
CountPairs(cooccurrence, pairs, k) ==
    IF k > Len(pairs) THEN cooccurrence
    ELSE LET kw1  == pairs[k][1]
             kw2  == pairs[k][2]
             pair == SortedPair(kw1, kw2)
         IN  IF kw1 /= kw2
             THEN CountPairs(IF pair \in DOMAIN cooccurrence
                             THEN [cooccurrence EXCEPT ![pair] = @ + 1]
                             ELSE (pair :> 1) @@ cooccurrence,
                             pairs, k + 1)
             ELSE CountPairs(cooccurrence, pairs, k + 1)

RECURSIVE Cooccurrence(_, _, _, _)
Cooccurrence(cooccurrence, ps, valid_keywords, k) ==
    IF k > Len(ps) THEN cooccurrence
    ELSE LET keywords == SelectSeq(ps[k].keywords, LAMBDA kw : kw \in valid_keywords)
         IN  Cooccurrence(CountPairs(cooccurrence, Pairs(keywords), 1),
                          ps, valid_keywords, k + 1)

\* the co-occurrence weight an edge needs (line 109)
MinEdgeWeight == 2

\* NetworkBuilder.build_keywords
build_keywords(ps, min_freq) ==
    LET keyword_freq == KeywordFreq(ps)
        cooccurrence == Cooccurrence(<<>>, ps, ValidKeywords(ps, min_freq), 1)
        kept  == {pair \in DOMAIN cooccurrence : cooccurrence[pair] >= MinEdgeWeight}
        nodes == UNION {{pair[1], pair[2]} : pair \in kept}
    IN  [nodes |-> nodes,
         edges |-> [e \in {{pair[1], pair[2]} : pair \in kept} |->
                      cooccurrence[CHOOSE pair \in kept : {pair[1], pair[2]} = e]],
         attrs |-> [node \in nodes |-> [freq |-> keyword_freq[node]]]]

----------------------------------------------------------------------------
(* Input texts of the parser specification *)

MaxLines == 4

Fill(c, n) == [i \in 1..n |-> c]

HeaderLine == <<"%", "0", " ", "J">>
LongTitleLine == <<"%", "T", " ">> \o Fill("t", 45)
ShortTitleLine == <<"%", "T", " ", "s">>
EmptyTitleLine == <<"%", "T">>
\* a title whose value holds "%0" and a space in the middle of the line
InlineMarkerTitleLine ==
    <<"%", "T", " ">> \o Fill("u", 43) \o <<" ", "%", "0", " ", "v">>
LongAbstractLine == <<"%", "X", " ">> \o Fill("x", 45)
AuthorLine == <<"%", "A", " ", "X">>
PlainLine == <<"n", "o", "t", "e">>

LinePool == {HeaderLine, LongTitleLine, ShortTitleLine, EmptyTitleLine,
             InlineMarkerTitleLine, LongAbstractLine, AuthorLine, PlainLine}

RECURSIVE JoinLines(_)
JoinLines(ls) == IF ls = <<>> THEN <<>>
                 ELSE ls[1] \o <<"\n">> \o JoinLines(Tail(ls))

LineSeqs == UNION {[1..n -> LinePool] : n \in 0..MaxLines}

InputTexts == {JoinLines(ls) : ls \in LineSeqs}

----------------------------------------------------------------------------
(* The parser alone: one call of CnkiEndNoteParser.parse on one file *)

\* No program runs around a call of the library alone.
NoRun ==
    /\ entry = "none"
    /\ argGiven = FALSE
    /\ apiKey = FALSE
    /\ pc = "library"
    /\ outputDir = FALSE
    /\ artifacts = {}
    /\ log = <<>>
    /\ warnings = {}
    /\ ai_report = None
    /\ heap = <<>>
    /\ parsed = <<>>
    /\ calls = <<>>

InitParse ==
    /\ NoRun
    /\ fileExists \in BOOLEAN
    /\ content \in (IF fileExists THEN InputTexts ELSE {<<>>})
    /\ papers = <<>>
    /\ parseState = "ready"
    /\ stats = None
    /\ coauth = None
    /\ inst = None
    /\ keyword = None

\* parse raises FileNotFoundError before it reads anything
ParseRaises ==
    /\ parseState = "ready"
    /\ ~fileExists
    /\ parseState' = "raised"
    /\ UNCHANGED <<heapVars, fileExists, content, papers, stats, coauth, inst, keyword, runVars>>

ParseReturns ==
    /\ parseState = "ready"
    /\ fileExists
    /\ papers' = ParseText(content)
    /\ parseState' = "done"
    /\ UNCHANGED <<heapVars, fileExists, content, stats, coauth, inst, keyword, runVars>>

NextParse == ParseRaises \/ ParseReturns

SpecParse == InitParse /\ [][NextParse]_vars

----------------------------------------------------------------------------
(* The parser's records as objects: which lists they hold *)

MaxParses == 3

\* The same construction with the three default lists made once and handed
\* to every new CnkiPaper.
NewPaperSharedDefaults(h) ==
    [heap |-> IF h = <<>> THEN <<<<>>, <<>>, <<>>>> ELSE h,
     authors |-> 1, all_institutions |-> 2, keywords |-> 3]

\* CnkiPaper(): each field(default_factory=list) makes a new empty list.
NewPaper(h) ==
    [heap |-> h \o <<<<>>, <<>>, <<>>>>,
     authors |-> Len(h) + 1, all_institutions |-> Len(h) + 2, keywords |-> Len(h) + 3]

\* Whether a line of the block carries the marker with a non-empty value.
HasValueLine(record, marker) ==
    LET lines == SplitOn(Strip(record), {"\n"})
    IN  \E k \in 1..Len(lines) :
            LET line == Strip(lines[k])
            IN  /\ Len(line) >= 2
                /\ SubSeq(line, 1, 2) = marker
                /\ Strip(SubSeq(line, 3, Len(line))) /= <<>>

\* paper.field = list: the field is bound to a new list when a line of the
\* block assigns it.
BindList(h, bound, list) == IF bound THEN Append(h, list) ELSE h

\* _parse_record on the heap, given the new paper's default lists, the values
\* v the lines of the block decode to, and whether a %+ and a %K line with a
\* value bind a new list: the %A lines append to the record's own authors
\* list (the lists of earlier %+ or %K lines are dropped, the last is kept).
DecodeInto(new, v, newInst, newKw) ==
    [heap |-> BindList(BindList([new.heap EXCEPT ![new.authors] = @ \o v.authors],
                                newInst, v.all_institutions),
                       newKw, v.keywords),
     paper |-> [v EXCEPT !.authors = new.authors,
                         !.all_institutions = IF newInst THEN Len(new.heap) + 1
                                              ELSE new.all_institutions,
                         !.keywords = IF newKw
                                      THEN Len(new.heap) + 1 + (IF newInst THEN 1 ELSE 0)
                                      ELSE new.keywords]]

DecodeOnHeap(h, record) ==
    DecodeInto(NewPaper(h), parse_record(record),
               HasValueLine(record, <<"%", "+">>), HasValueLine(record, <<"%", "K">>))

\* The loop of parse, lines 51-58, on the heap.
RECURSIVE ParseOnHeap(_, _, _, _)
ParseOnHeap(h, records, k, acc) ==
    IF k > Len(records) THEN [heap |-> h, papers |-> acc]
    ELSE LET record == Strip(records[k])
             d == DecodeOnHeap(h, record)
         IN  IF record = <<>> \/ Len(record) < MinBlockLen
             THEN ParseOnHeap(h, records, k + 1, acc)
             ELSE IF d.paper.title /= <<>>
                  THEN ParseOnHeap(d.heap, records, k + 1, Append(acc, d.paper))
                  ELSE ParseOnHeap(d.heap, records, k + 1, acc)

\* A record as its reader sees it: the list fields read through the heap.
Deref(h, paper) ==
    [paper EXCEPT !.authors = h[@], !.all_institutions = h[@], !.keywords = h[@]]

DerefAll(h, ps) == [k \in 1..Len(ps) |-> Deref(h, ps[k])]

\* The lists a record holds.
ListsOf(paper) == {paper.authors, paper.all_institutions, paper.keywords}

FullBlock ==
    JoinLines(<<HeaderLine, LongTitleLine, AuthorLine, <<"%", "A", " ", "Y">>,
                <<"%", "+", " ", "X", ";", "Y", ";">>,
                <<"%", "K", " ", "X", ";", "Y">>>>)

\* The texts parsed again and again: one record with one author and default
\* lists otherwise; one record with every list field set; an untitled block
\* with an author, followed by a record.
ReparseTexts ==
    {JoinLines(<<HeaderLine, LongTitleLine, AuthorLine>>),
     FullBlock,
     JoinLines(<<HeaderLine, LongAbstractLine, AuthorLine>>) \o FullBlock}

\* The CnkiEndNoteParser instances of the process; the class has no fields.
Parsers == {"parser1", "parser2"}

InitReparse ==
    /\ NoRun
    /\ fileExists = TRUE
    /\ content = <<>>
    /\ papers = <<>>
    /\ parseState = "ready"
    /\ stats = None
    /\ coauth = None
    /\ inst = None
    /\ keyword = None

\* One more call of parse, of any of the texts, on any of the parsers.
Reparse ==
    /\ Len(parsed) < MaxParses
    /\ \E text \in ReparseTexts, parser \in Parsers :
          LET r == ParseOnHeap(heap, SplitRecords(text), 1, <<>>)
          IN  /\ heap' = r.heap
              /\ parsed' = Append(parsed, [text |-> text, parser |-> parser,
                                           papers |-> r.papers])
              /\ content' = text
              /\ papers' = DerefAll(r.heap, r.papers)
    /\ parseState' = "done"
    /\ UNCHANGED <<calls, fileExists, stats, coauth, inst, keyword, runVars>>

NextReparse == Reparse

SpecReparse == InitReparse /\ [][NextReparse]_vars

\* C13: parsing is deterministic and has no hidden state: two parses of the
\* same text, on the same parser or on two, with any other parses in between,
\* return records that are equal field by field, and no record of one parse
\* shares a list with a record of another parse.
ReparseIsRepeatable ==
    \A i, j \in 1..Len(parsed) :
        /\ DerefAll(heap, parsed[i].papers) = ParseText(parsed[i].text)
        /\ parsed[i].text = parsed[j].text =>
              DerefAll(heap, parsed[i].papers) = DerefAll(heap, parsed[j].papers)
        /\ i /= j =>
              \A a \in 1..Len(parsed[i].papers), b \in 1..Len(parsed[j].papers) :
                  ListsOf(parsed[i].papers[a]) \cap ListsOf(parsed[j].papers[b]) = {}

\* The same text was parsed on two parsers with a parse of another text in
\* between, and each parse returned a record.
ReparsedWithOthersBetween ==
    /\ Len(parsed) = 3
    /\ parsed[1].text = parsed[3].text /\ parsed[1].text /= parsed[2].text
    /\ parsed[1].parser /= parsed[3].parser
    /\ \A i \in 1..3 : parsed[i].papers /= <<>>

----------------------------------------------------------------------------
(* Reference reading of an input text, by lines, for the parser claims *)

\* The positions where a line begins with "%0" and whitespace.
LineRecordStarts(text) ==
    {i \in RecordStarts(text) : i = 1 \/ text[i - 1] = "\n"}

\* The record blocks of the input format: from one line that begins with the
\* record-start marker up to the next such line.
RecordBlocks(text) ==
    LET at == Ascending(LineRecordStarts(text))
        hi(k) == IF k = Len(at) THEN Len(text) ELSE at[k + 1] - 1
    IN  [k \in 1..Len(at) |-> SubSeq(text, at[k], hi(k))]

\* What precedes the first record block.
LeadingText(text) ==
    IF LineRecordStarts(text) = {} THEN text
    ELSE SubSeq(text, 1, Min(LineRecordStarts(text)) - 1)

\* The trimmed values of the lines of a block that carry the marker, in order.
FieldValues(block, marker) ==
    LET ls   == SplitOn(block, {"\n"})
        mine == SelectSeq(ls, LAMBDA l : StartsWith(Strip(l), marker))
    IN  [k \in 1..Len(mine) |->
            Strip(SubSeq(Strip(mine[k]), Len(marker) + 1, Len(Strip(mine[k]))))]

LastValue(block, marker) ==
    LET vs == FieldValues(block, marker)
    IN  IF vs = <<>> THEN <<>> ELSE vs[Len(vs)]

WellFormedBlock(block) ==
    /\ Len(Strip(block)) >= MinBlockLen
    /\ LastValue(block, <<"%", "T">>) /= <<>>

WellFormedText(text) ==
    /\ Strip(LeadingText(text)) = <<>>
    /\ \A k \in 1..Len(RecordBlocks(text)) : WellFormedBlock(RecordBlocks(text)[k])

\* C1: a text made of N well-formed record blocks parses to exactly N records,
\* in input order, record i carrying the title, the authors and the abstract
\* that the marker lines of block i carry, whatever characters the values hold.
ParseMatchesBlocks ==
    (parseState = "done" /\ WellFormedText(content)) =>
        LET blocks == RecordBlocks(content)
        IN  /\ Len(papers) = Len(blocks)
            /\ \A k \in 1..Len(blocks) :
                    /\ papers[k].title = LastValue(blocks[k], <<"%", "T">>)
                    /\ papers[k].authors =
                          SelectSeq(FieldValues(blocks[k], <<"%", "A">>),
                                    LAMBDA v : v /= <<>>)
                    /\ papers[k].abstract = LastValue(blocks[k], <<"%", "X">>)

\* The candidate blocks the loop of parse goes through, trimmed.
CandidateBlocks(text) ==
    LET pieces == SplitRecords(text)
    IN  [k \in 1..Len(pieces) |-> Strip(pieces[k])]

\* The candidate blocks that are long enough to be decoded.
DecodedBlocks(text) ==
    SelectSeq(CandidateBlocks(text), LAMBDA b : Len(b) >= MinBlockLen)

Untitled(block) == LastValue(block, <<"%", "T">>) = <<>>

\* C2: every record parse returns has a non-empty title; the records returned
\* are, one for one and in order, the decoded blocks whose last %T line has a
\* non-empty value, so a block with no %T line or with an empty last %T line
\* yields no record; and the call does not raise for a file that exists.
TitledRecordsOnly ==
    /\ fileExists => parseState /= "raised"
    /\ parseState = "done" =>
         LET titled == SelectSeq(DecodedBlocks(content), LAMBDA b : ~Untitled(b))
         IN  /\ \A k \in 1..Len(papers) : papers[k].title /= <<>>
             /\ Len(papers) = Len(titled)
             /\ \A k \in 1..Len(titled) :
                    papers[k].title = LastValue(titled[k], <<"%", "T">>)

\* A decoded block with an abstract and no %T line, and one whose last %T line
\* is empty after an earlier non-empty one, were dropped; another was kept.
UntitledBlockDropped ==
    /\ parseState = "done"
    /\ Len(papers) = 1
    /\ LET decoded == DecodedBlocks(content)
       IN  \E k \in 1..Len(decoded) :
              /\ FieldValues(decoded[k], <<"%", "T">>) = <<>>
              /\ LastValue(decoded[k], <<"%", "X">>) /= <<>>

----------------------------------------------------------------------------
(* The decoding of one block: the institution and the date lines *)

MaxFieldLines == 3

InstitutionLines ==
    {<<"%", "+", " ", "X", ";", "Y", ";">>,
     <<"%", "+", " ", " ", "Z", " ", ";", " ", ";", "X">>,
     <<"%", "+", " ", ";">>,
     <<"%", "+">>}

DateLines ==
    {<<"%", "D", " ", "2", "0", "2", "4", NIAN, "5">>,
     <<"%", "D", " ", "1", "8", " ", "1", "9", "9", "8", "-", "2", "0", "2", "4">>,
     <<"%", "D", " ", "3", "2", "0", "1", "9", "9">>,
     <<"%", "D", " ", "1", "8", "9", "9", "2", "1">>,
     <<"%", "D">>}

FieldLineSeqs == UNION {[1..n -> InstitutionLines \cup DateLines] : n \in 0..MaxFieldLines}

\* One block: the record-start line, a title and some field lines.
FieldTexts == {JoinLines(<<HeaderLine, LongTitleLine>> \o ls) : ls \in FieldLineSeqs}

InitDecode ==
    /\ NoRun
    /\ fileExists \in BOOLEAN
    /\ content \in (IF fileExists THEN FieldTexts ELSE {<<>>})
    /\ papers = <<>>
    /\ parseState = "ready"
    /\ stats = None
    /\ coauth = None
    /\ inst = None
    /\ keyword = None

SpecDecode == InitDecode /\ [][NextParse]_vars

\* The trimmed non-empty segments of a value, cut at ';'.
Segments(value) ==
    LET pieces == SplitOn(value, {";"})
    IN  SelectSeq([k \in 1..Len(pieces) |-> Strip(pieces[k])], LAMBDA p : p /= <<>>)

InstitutionsAre(paper, list) ==
    /\ paper.all_institutions = list
    /\ paper.institution = IF list = <<>> THEN <<>> ELSE list[1]

\* C14 as stated: all_institutions is the list of trimmed non-empty segments
\* of the last %+ line of the block, whatever that line's value is, and
\* institution is its first element, or empty when the list is empty.
InstitutionsFromLastLine ==
    (parseState = "done" /\ Len(papers) = 1) =>
        InstitutionsAre(papers[1], Segments(LastValue(content, <<"%", "+">>)))

\* C14 amended: all_institutions is the list of trimmed non-empty segments of
\* the last %+ line of the block that has a non-empty value (empty when there
\* is no such line), and institution is its first element, or empty when the
\* list is empty; "%+ X;Y;" alone gives [X, Y] and X.
InstitutionsFromLastValuedLine ==
    (parseState = "done" /\ Len(papers) = 1) =>
        LET valued == SelectSeq(FieldValues(content, <<"%", "+">>), LAMBDA v : v /= <<>>)
            last   == IF valued = <<>> THEN <<>> ELSE valued[Len(valued)]
        IN  /\ InstitutionsAre(papers[1], Segments(last))
            /\ valued = <<<<"X", ";", "Y", ";">>>> =>
                  /\ papers[1].all_institutions = <<<<"X">>, <<"Y">>>>
                  /\ papers[1].institution = <<"X">>

\* A block was decoded whose last %+ line has no value and follows a %+ line
\* that lists institutions.
EmptyInstitutionLineLast ==
    /\ parseState = "done" /\ Len(papers) = 1
    /\ Len(FieldValues(content, <<"%", "+">>)) >= 2
    /\ LastValue(content, <<"%", "+">>) = <<>>
    /\ papers[1].all_institutions /= <<>>

\* Whether a year of the form 19dd or 20dd begins at position i of the value.
YearAt(value, i) ==
    /\ i + 3 <= Len(value)
    /\ <<value[i], value[i + 1]>> \in {<<"1", "9">>, <<"2", "0">>}
    /\ IsDigit(value[i + 2]) /\ IsDigit(value[i + 3])

HasYear(value) == \E i \in 1..Len(value) : YearAt(value, i)

\* The number the leftmost such year writes.
LeftmostYear(value) ==
    LET i == CHOOSE k \in 1..Len(value) :
                 YearAt(value, k) /\ \A m \in 1..(k - 1) : ~YearAt(value, m)
    IN  1000 * DigitVal(value[i]) + 100 * DigitVal(value[i + 1])
          + 10 * DigitVal(value[i + 2]) + DigitVal(value[i + 3])

\* C15: a record's year is the number written by the leftmost 4-digit
\* substring beginning with 19 or 20 of its date field, and 0 when the date
\* field holds none or is absent, so it is 0 or within 1900..2099; "2024" and
\* the year character give 2024.  Of several %D lines the last one that
\* holds a year is the date field.
YearIsLeftmostMatch ==
    (parseState = "done" /\ Len(papers) = 1) =>
        LET dates == SelectSeq(FieldValues(content, <<"%", "D">>), HasYear)
            year  == papers[1].year
        IN  /\ year = IF dates = <<>> THEN 0 ELSE LeftmostYear(dates[Len(dates)])
            /\ year = 0 \/ (1900 <= year /\ year <= 2099)
            /\ FieldValues(content, <<"%", "D">>) = <<<<"2", "0", "2", "4", NIAN, "5">>>>
                  => year = 2024

\* A block was decoded whose one date line holds a number that is no year
\* and then two years.
DateWithTwoYears ==
    /\ parseState = "done" /\ Len(papers) = 1
    /\ Len(FieldValues(content, <<"%", "D">>)) = 1
    /\ \E i, j \in 1..Len(LastValue(content, <<"%", "D">>)) :
          /\ i < j
          /\ YearAt(LastValue(content, <<"%", "D">>), i)
          /\ YearAt(LastValue(content, <<"%", "D">>), j)
    /\ papers[1].year = 1998

----------------------------------------------------------------------------
(* The statistics and the builders over one corpus *)

MaxPapers == 3

X == <<"X">>
Y == <<"Y">>
Z == <<"Z">>

\* A record as parse returns it for a block with the author lines, the
\* institution list and the keyword list `names`.
Paper(names, year, citations, journal) ==
    [CnkiPaper EXCEPT !.title = <<"t">>,
                      !.authors = names,
                      !.all_institutions = names,
                      !.institution = IF names /= <<>> THEN names[1] ELSE <<>>,
                      !.keywords = names,
                      !.year = year,
                      !.citations = citations,
                      !.journal = journal]

PaperPool == {Paper(<<X, Y>>, 2024, 3, <<"J">>),
              Paper(<<X, Y, X>>, 1998, 1, <<"J">>),
              Paper(<<Y, Z>>, 2001, 2, <<"K">>),
              Paper(<<Z>>, 0, 0, <<>>),
              Paper(<<Z, X>>, 2000, 5, <<"K">>)}

Corpora == UNION {[1..n -> PaperPool] : n \in 0..MaxPapers}

\* the thresholds the callers pass (50, 10; 2, 1) and small ones that cut
TopNChoices == {0, 1, 2, 50}
MinFreqChoices == {1, 2, 3}

InitNet ==
    /\ NoRun
    /\ fileExists = TRUE
    /\ content = <<>>
    /\ papers \in Corpora
    /\ parseState = "done"
    /\ stats = None
    /\ coauth = None
    /\ inst = None
    /\ keyword = None

ComputeStats ==
    /\ stats = None
    /\ stats' = Some(Stats(papers))
    /\ UNCHANGED <<heapVars, fileExists, content, papers, parseState, coauth, inst, keyword, runVars>>

BuildCoauthorship ==
    /\ coauth = None
    /\ \E top_n \in TopNChoices :
          coauth' = Some([top_n |-> top_n, G |-> build_coauthorship(papers, top_n)])
    /\ UNCHANGED <<heapVars, fileExists, content, papers, parseState, stats, inst, keyword, runVars>>

BuildInstitution ==
    /\ inst = None
    /\ inst' = Some([G |-> build_institution(papers)])
    /\ UNCHANGED <<heapVars, fileExists, content, papers, parseState, stats, coauth, keyword, runVars>>

BuildKeywords ==
    /\ keyword = None
    /\ \E min_freq \in MinFreqChoices :
          keyword' = Some([min_freq |-> min_freq, G |-> build_keywords(papers, min_freq)])
    /\ UNCHANGED <<heapVars, fileExists, content, papers, parseState, stats, coauth, inst, runVars>>

NextNet == ComputeStats \/ BuildCoauthorship \/ BuildInstitution \/ BuildKeywords

SpecNet == InitNet /\ [][NextNet]_vars

----------------------------------------------------------------------------
(* Reference notions for the graph claims *)

Elems(list) == {list[i] : i \in 1..Len(list)}

\* The records whose list holds every name of the set; lists[k] is the list
\* of record k.
RecordsWithAll(lists, names) ==
    {k \in 1..Len(lists) : names \subseteq Elems(lists[k])}

AuthorsOf(ps) == [k \in 1..Len(ps) |-> ps[k].authors]
InstitutionsOf(ps) == [k \in 1..Len(ps) |-> ps[k].all_institutions]
KeywordsOf(ps) == [k \in 1..Len(ps) |-> ps[k].keywords]

\* The names of each record's list that are among the given ones.
Among(lists, names) ==
    [k \in 1..Len(lists) |-> SelectSeq(lists[k], LAMBDA a : a \in names)]

\* Every edge weighs the number of records in which its endpoints both occur.
WeightsCountRecords(G, lists) ==
    \A e \in DOMAIN G.edges :
        /\ G.edges[e] \in Nat \ {0}
        /\ G.edges[e] = Cardinality(RecordsWithAll(lists, e))

\* C3: in each of the three graphs the weight of an edge {u,v} is a positive
\* integer, the number of records in which u and v both occur (among the
\* retained authors, in all_institutions, among the valid keywords); a record
\* adds at most 1 to a weight, also when it repeats a name.
EdgeWeightIsRecordCount ==
    /\ coauth /= None =>
         LET top_names == TopNames(papers, coauth[1].top_n)
         IN  WeightsCountRecords(coauth[1].G, Among(AuthorsOf(papers), top_names))
    /\ inst /= None => WeightsCountRecords(inst[1].G, InstitutionsOf(papers))
    /\ keyword /= None =>
         LET valid == ValidKeywords(papers, keyword[1].min_freq)
         IN  WeightsCountRecords(keyword[1].G, Among(KeywordsOf(papers), valid))

NoSelfLoop(G) == \A e \in DOMAIN G.edges : Cardinality(e) = 2

\* C4: none of the three graphs has an edge that joins a node to itself,
\* whatever the corpus and the threshold.
NoSelfLoops ==
    /\ coauth /= None => NoSelfLoop(coauth[1].G)
    /\ inst /= None => NoSelfLoop(inst[1].G)
    /\ keyword /= None => NoSelfLoop(keyword[1].G)

AllKeywords(ps) == UNION {Elems(ps[k].keywords) : k \in 1..Len(ps)}

\* C5: build_keywords(min_freq) joins two distinct keywords exactly when both
\* have global frequency >= min_freq and they co-occur in at least 2 records;
\* a pair that co-occurs in exactly one record has no edge, a pair that
\* co-occurs in exactly two records has an edge of weight 2.
KeywordEdgeIffTwoRecords ==
    keyword /= None =>
        LET G    == keyword[1].G
            freq == KeywordFreq(papers)
        IN  \A u \in AllKeywords(papers) : \A v \in AllKeywords(papers) \ {u} :
                LET together == Cardinality(RecordsWithAll(KeywordsOf(papers), {u, v}))
                IN  /\ {u, v} \in DOMAIN G.edges <=>
                          /\ freq[u] >= keyword[1].min_freq
                          /\ freq[v] >= keyword[1].min_freq
                          /\ together >= 2
                    /\ together = 1 => {u, v} \notin DOMAIN G.edges
                    /\ (together = 2 /\ {u, v} \in DOMAIN G.edges) => G.edges[{u, v}] = 2

AllAuthors(ps) == UNION {Elems(ps[k].authors) : k \in 1..Len(ps)}

\* C6: in the co-authorship graph an author is a node only when they share a
\* record with another, different retained author; and when X and Y appear
\* together in 3 records, no other pair co-occurs and both are retained, the
\* graph is exactly the nodes X and Y and the one edge {X,Y} of weight 3.
NodesOnlyViaCoauthors ==
    coauth /= None =>
        LET G         == coauth[1].G
            top_names == TopNames(papers, coauth[1].top_n)
            onlyXY    ==
                /\ Cardinality(RecordsWithAll(AuthorsOf(papers), {X, Y})) = 3
                /\ \A u \in AllAuthors(papers) : \A v \in AllAuthors(papers) \ {u} :
                      {u, v} /= {X, Y} => RecordsWithAll(AuthorsOf(papers), {u, v}) = {}
                /\ {X, Y} \subseteq top_names
        IN  /\ \A a \in G.nodes :
                  \E b \in top_names \ {a} :
                      RecordsWithAll(AuthorsOf(papers), {a, b}) /= {}
            /\ onlyXY => /\ G.nodes = {X, Y}
                         /\ DOMAIN G.edges = {{X, Y}}
                         /\ G.edges[{X, Y}] = 3

\* The number of records that list the author.
PaperCount(ps, a) == Cardinality(RecordsWithAll(AuthorsOf(ps), {a}))

\* The first record that lists the author, and the first position in it.
FirstAppearance(ps, a) ==
    LET k == Min(RecordsWithAll(AuthorsOf(ps), {a}))
    IN  <<k, Min({i \in 1..Len(ps[k].authors) : ps[k].authors[i] = a})>>

AppearsBefore(ps, a, b) ==
    LET fa == FirstAppearance(ps, a)
        fb == FirstAppearance(ps, b)
    IN  fa[1] < fb[1] \/ (fa[1] = fb[1] /\ fa[2] < fb[2])

\* The authors that come before `a` by descending paper count, ties by first
\* appearance.
RankedAhead(ps, a) ==
    {b \in AllAuthors(ps) \ {a} :
        \/ PaperCount(ps, b) > PaperCount(ps, a)
        \/ PaperCount(ps, b) = PaperCount(ps, a) /\ AppearsBefore(ps, b, a)}

FirstTopN(ps, top_n) ==
    {a \in AllAuthors(ps) : Cardinality(RankedAhead(ps, a)) < top_n}

\* C7: build_coauthorship(top_n) retains exactly the first top_n authors by
\* descending paper count, ties by first appearance; every node is a retained
\* author, so there are at most top_n nodes and no author ranked below top_n
\* is a node or the endpoint of an edge.
RetainsFirstTopN ==
    coauth /= None =>
        LET G        == coauth[1].G
            retained == FirstTopN(papers, coauth[1].top_n)
        IN  /\ TopNames(papers, coauth[1].top_n) = retained
            /\ G.nodes \subseteq retained
            /\ Cardinality(G.nodes) <= coauth[1].top_n
            /\ \A e \in DOMAIN G.edges : e \subseteq retained

----------------------------------------------------------------------------
(* The statistics *)

YearsOf(ps) == {ps[k].year : k \in 1..Len(ps)}

\* C8: the 'years' entry of the statistics is the strictly ascending list of
\* exactly the distinct record years above 2000; a record with a year <= 2000
\* is not in it and does not move the first and last values shown as the time
\* span, and 'total' still counts that record.
YearsAreRecentOnly ==
    stats /= None =>
        LET years  == stats[1].years
            recent == {y \in YearsOf(papers) : y > 2000}
        IN  /\ \A i \in 1..Len(years) : \A j \in 1..Len(years) :
                  i < j => years[i] < years[j]
            /\ Elems(years) = recent
            /\ \A k \in 1..Len(papers) :
                  papers[k].year <= 2000 => papers[k].year \notin Elems(years)
            /\ TimeSpan(stats[1]) = IF recent = {} THEN None
                                    ELSE <<Min(recent), Max(recent)>>
            /\ stats[1].total = Len(papers)

\* The statistics of a corpus that lists 2024 before 2001 and holds records of
\* 1998, of 2000 and of an unknown year.
OldYearsLeftOut ==
    /\ stats /= None
    /\ Len(papers) >= 3
    /\ {0, 1998, 2000} \cap YearsOf(papers) /= {}
    /\ stats[1].years = <<2001, 2024>>
    /\ papers[1].year = 2024

----------------------------------------------------------------------------
(* One run of the pipeline: main.py, app.py run_analysis, test_real_data.py *)

MaxRunPapers == 5

\* the thresholds main.py passes to the builders
DefaultTopN == 50
DefaultMinFreq == 2
\* the corpus size below which the narrative step is skipped
MinPapersForAI == 5

\* A block with one author: it gives no edge in any graph.
SoloBlock ==
    JoinLines(<<HeaderLine, LongTitleLine, AuthorLine>>)

\* A block with two authors, two institutions, two keywords and a year.
PairBlock ==
    JoinLines(<<HeaderLine, LongTitleLine, AuthorLine, <<"%", "A", " ", "Y">>,
                <<"%", "+", " ", "X", ";", "Y", ";">>,
                <<"%", "K", " ", "X", ";", "Y">>,
                <<"%", "D", " ", "2", "0", "2", "4">>>>)

RECURSIVE Repeat(_, _)
Repeat(block, n) == IF n = 0 THEN <<>> ELSE block \o Repeat(block, n - 1)

RunTexts == {Repeat(b, n) : b \in {SoloBlock, PairBlock}, n \in 0..MaxRunPapers}

\* The same programs with the narrative step moved before the plots.
StepsNarrativeFirst ==
    [cli       |-> <<"check", "parse", "excel", "build", "narrative", "render", "finish">>,
     dashboard |-> <<"parse", "build", "narrative", "render", "excel", "finish">>,
     script    |-> <<"parse", "build", "render", "excel", "finish">>]

\* The steps of each program, in the order of its source.
Steps ==
    [cli       |-> <<"check", "parse", "excel", "build", "render", "narrative", "finish">>,
     dashboard |-> <<"parse", "build", "render", "excel", "narrative", "finish">>,
     script    |-> <<"parse", "build", "render", "excel", "finish">>]

\* The step that follows `step` in the running program, "done" after the last.
Following(step) ==
    LET order == Steps[entry]
        at    == CHOOSE i \in 1..Len(order) : order[i] = step
    IN  IF at = Len(order) THEN "done" ELSE order[at + 1]

InitRun ==
    /\ entry \in {"cli", "dashboard", "script"}
    /\ argGiven \in (IF entry = "cli" THEN BOOLEAN ELSE {TRUE})
    \* the dashboard analyses the upload it has just saved
    /\ fileExists \in (IF entry = "dashboard" THEN {TRUE} ELSE BOOLEAN)
    /\ content \in (IF fileExists THEN RunTexts ELSE {<<>>})
    /\ apiKey \in (IF entry = "script" THEN {FALSE} ELSE BOOLEAN)
    /\ pc = Steps[entry][1]
    /\ papers = <<>>
    /\ parseState = "ready"
    /\ stats = None
    /\ coauth = None
    /\ inst = None
    /\ keyword = None
    /\ outputDir = FALSE
    /\ artifacts = {}
    /\ log = <<>>
    /\ warnings = {}
    /\ ai_report = None
    /\ heap = <<>>
    /\ parsed = <<>>
    /\ calls = <<>>

\* main() without the test of line 81: the output directory is made for any
\* file name.
MainSkipsFileCheck ==
    /\ entry = "cli" /\ pc = "check"
    /\ IF ~argGiven
       THEN pc' = "exit1" /\ UNCHANGED outputDir
       ELSE pc' = Following("check") /\ outputDir' = TRUE
    /\ log' = Append(log, "check")
    /\ UNCHANGED <<heapVars, coreVars, entry, argGiven, apiKey, artifacts, warnings, ai_report>>

\* main(), lines 73-92: no file name, or a file that does not exist, ends the
\* run with exit status 1; otherwise the output directory is made.
MainChecks ==
    /\ entry = "cli" /\ pc = "check"
    /\ IF ~argGiven \/ ~fileExists
       THEN pc' = "exit1" /\ UNCHANGED outputDir
       ELSE pc' = Following("check") /\ outputDir' = TRUE
    /\ log' = Append(log, "check")
    /\ UNCHANGED <<heapVars, coreVars, entry, argGiven, apiKey, artifacts, warnings, ai_report>>

\* quick_parse for a missing file: parse raises FileNotFoundError and no
\* caller handles it.
QuickParseRaises ==
    /\ pc = "parse"
    /\ ~fileExists
    /\ parseState' = "raised"
    /\ pc' = "raised"
    /\ log' = Append(log, "parse_raised")
    /\ UNCHANGED <<heapVars, fileExists, content, papers, stats, coauth, inst, keyword,
                   entry, argGiven, apiKey, outputDir, artifacts, warnings, ai_report>>

\* quick_parse: the records and then the statistics.  The dashboard stops
\* here when no record was parsed (app.py, lines 160-162).
QuickParse ==
    /\ pc = "parse"
    /\ fileExists
    /\ papers' = ParseText(content)
    /\ parseState' = "done"
    /\ stats' = Some(Stats(papers'))
    /\ log' = log \o <<"parse", "stats">>
    /\ IF entry = "dashboard" /\ Stats(papers').total = 0
       THEN pc' = "rejected" /\ warnings' = warnings \cup {"no_records"}
       ELSE pc' = Following("parse") /\ UNCHANGED warnings
    /\ UNCHANGED <<heapVars, fileExists, content, coauth, inst, keyword,
                   entry, argGiven, apiKey, outputDir, artifacts, ai_report>>

\* df.to_excel(...)
SaveExcel ==
    /\ pc = "excel"
    /\ artifacts' = artifacts \cup {"00_data"}
    /\ log' = Append(log, "excel")
    /\ pc' = Following("excel")
    /\ UNCHANGED <<heapVars, coreVars, entry, argGiven, apiKey, outputDir, warnings, ai_report>>

\* The three builder calls; the dashboard passes the slider's min_freq.
RunBuilders ==
    /\ pc = "build"
    /\ \E min_freq \in (IF entry = "dashboard" THEN MinFreqChoices ELSE {DefaultMinFreq}) :
          keyword' = Some([min_freq |-> min_freq, G |-> build_keywords(papers, min_freq)])
    /\ coauth' = Some([top_n |-> DefaultTopN,
                       G |-> build_coauthorship(papers, DefaultTopN)])
    /\ inst' = Some([G |-> build_institution(papers)])
    /\ log' = log \o <<"build_coauthorship", "build_institution", "build_keywords">>
    /\ pc' = Following("build")
    /\ UNCHANGED <<heapVars, fileExists, content, papers, parseState, stats,
                   entry, argGiven, apiKey, outputDir, artifacts, warnings, ai_report>>

\* What the six plot calls write: a plot of an empty graph, of no year above
\* 2000, of no keyword or of no author returns None and writes nothing.
Plots(ps, gc, gi, gk) ==
    {f \in {"01_coauthorship", "02_institution", "03_keywords",
            "04_trend", "05_wordcloud", "06_top_authors"} :
        \/ f = "01_coauthorship" /\ gc.nodes /= {}
        \/ f = "02_institution" /\ gi.nodes /= {}
        \/ f = "03_keywords" /\ gk.nodes /= {}
        \/ f = "04_trend" /\ \E k \in 1..Len(ps) : ps[k].year > 2000
        \/ f = "05_wordcloud" /\ \E k \in 1..Len(ps) : ps[k].keywords /= <<>>
        \/ f = "06_top_authors" /\ \E k \in 1..Len(ps) : ps[k].authors /= <<>>}

\* The notices the plot calls print for what they do not draw.
PlotNotices(ps, gc, gi, gk) ==
    {"no_" \o f : f \in {"01_coauthorship", "02_institution", "03_keywords",
                          "04_trend", "05_wordcloud", "06_top_authors"}
                         \ Plots(ps, gc, gi, gk)}

\* The same step with no test for an empty graph in the three network plots:
\* the layout of a graph with no node divides by zero and the run ends.
RenderWithoutEmptyTest ==
    /\ pc = "render"
    /\ outputDir' = TRUE
    /\ IF {} \in {coauth[1].G.nodes, inst[1].G.nodes, keyword[1].G.nodes}
       THEN /\ log' = Append(log, "render_failed")
            /\ pc' = "raised"
            /\ UNCHANGED <<artifacts, warnings>>
       ELSE /\ artifacts' = artifacts
                    \cup Plots(papers, coauth[1].G, inst[1].G, keyword[1].G)
            /\ warnings' = warnings
                    \cup PlotNotices(papers, coauth[1].G, inst[1].G, keyword[1].G)
            /\ log' = Append(log, "render")
            /\ pc' = Following("render")
    /\ UNCHANGED <<heapVars, coreVars, entry, argGiven, apiKey, ai_report>>

\* Visualizer(output_dir) makes the directory; then the six plots, each of
\* which either writes its file or prints its notice and returns None.
Render ==
    /\ pc = "render"
    /\ outputDir' = TRUE
    /\ artifacts' = artifacts \cup Plots(papers, coauth[1].G, inst[1].G, keyword[1].G)
    /\ warnings' = warnings \cup PlotNotices(papers, coauth[1].G, inst[1].G, keyword[1].G)
    /\ log' = Append(log, "render")
    /\ pc' = Following("render")
    /\ UNCHANGED <<heapVars, coreVars, entry, argGiven, apiKey, ai_report>>

\* Step 4 begins: ai_report = None, and the narrative service is called only
\* with an API key and at least 5 records; otherwise a notice is shown.
NarrativeGate ==
    /\ pc = "narrative"
    /\ IF apiKey /\ Len(papers) >= MinPapersForAI
       THEN pc' = "client" /\ UNCHANGED warnings
       ELSE /\ pc' = Following("narrative")
            /\ warnings' = warnings \cup
                  {IF ~apiKey THEN "ai_skipped_no_key" ELSE "ai_skipped_few_records"}
    /\ log' = Append(log, "narrative_gate")
    /\ UNCHANGED <<heapVars, coreVars, entry, argGiven, apiKey, outputDir, artifacts, ai_report>>

\* The except clause of step 4: the failure is shown as a warning and the run
\* goes on with the step after the narrative step.
Caught(call) ==
    /\ warnings' = warnings \cup {"ai_failed"}
    /\ log' = Append(log, call \o "_failed")
    /\ pc' = Following("narrative")

\* The same failure with no except clause around it: it ends the run.
Uncaught(call) ==
    /\ UNCHANGED warnings
    /\ log' = Append(log, call \o "_failed")
    /\ pc' = "raised"

\* One call inside the try block: it returns, or it raises and is caught.
NarrativeCall(call, next) ==
    /\ \/ /\ log' = Append(log, call)
          /\ pc' = next
          /\ UNCHANGED warnings
       \/ Caught(call)
    /\ UNCHANGED <<heapVars, coreVars, entry, argGiven, apiKey, outputDir, artifacts, ai_report>>

\* analyzer = DeepSeekAnalyzer(api_key)
NarrativeClient == pc = "client" /\ NarrativeCall("client", "themes")

\* One call inside a try block that catches nothing.
NarrativeCallUncaught(call, next) ==
    /\ \/ /\ log' = Append(log, call)
          /\ pc' = next
          /\ UNCHANGED warnings
       \/ Uncaught(call)
    /\ UNCHANGED <<heapVars, coreVars, entry, argGiven, apiKey, outputDir, artifacts, ai_report>>

NarrativeThemesUncaught == pc = "themes" /\ NarrativeCallUncaught("themes", "summary")

\* theme_result = analyzer.analyze_themes(all_keywords, all_titles)
NarrativeThemes == pc = "themes" /\ NarrativeCall("themes", "summary")

\* The same call with its failure let through to the writing of the report.
NarrativeSummaryFailureSaved ==
    /\ pc = "summary"
    /\ \/ /\ log' = Append(log, "summary")
          /\ UNCHANGED warnings
       \/ /\ log' = Append(log, "summary_failed")
          /\ warnings' = warnings \cup {"ai_failed"}
    /\ pc' = "save_report"
    /\ UNCHANGED <<heapVars, coreVars, entry, argGiven, apiKey, outputDir, artifacts, ai_report>>

\* review_result = analyzer.generate_summary(stats, top_papers_data)
NarrativeSummary == pc = "summary" /\ NarrativeCall("summary", "save_report")

\* The report is put together from the two results, assigned to ai_report
\* and then written.  The write stands in the same try block: when open or
\* write raises, the file is missing or cut short, the warning is shown and
\* ai_report keeps the report.
NarrativeSave ==
    /\ pc = "save_report"
    /\ ai_report' = Some("report")
    /\ \/ /\ artifacts' = artifacts \cup {"07_ai_report"}
          /\ log' = Append(log, "save_report")
          /\ pc' = Following("narrative")
          /\ UNCHANGED warnings
       \/ /\ artifacts' \in {artifacts, artifacts \cup {"07_ai_report"}}
          /\ Caught("save_report")
    /\ UNCHANGED <<heapVars, coreVars, entry, argGiven, apiKey, outputDir>>

\* Step 5: main.py writes README.md, the dashboard shows the results, the
\* script prints where they are.
Finish ==
    /\ pc = "finish"
    /\ artifacts' = IF entry = "cli" THEN artifacts \cup {"README"} ELSE artifacts
    /\ log' = Append(log, "finish")
    /\ pc' = "done"
    /\ UNCHANGED <<heapVars, coreVars, entry, argGiven, apiKey, outputDir, warnings, ai_report>>

NextRun ==
    \/ MainChecks
    \/ QuickParseRaises
    \/ QuickParse
    \/ SaveExcel
    \/ RunBuilders
    \/ Render
    \/ NarrativeGate
    \/ NarrativeClient
    \/ NarrativeThemes
    \/ NarrativeSummary
    \/ NarrativeSave
    \/ Finish

SpecRun == InitRun /\ [][NextRun]_vars

\* The steps of a run that write its outputs.
OutputSteps ==
    \/ Render \/ SaveExcel
    \/ NarrativeGate \/ NarrativeClient \/ NarrativeThemes
    \/ NarrativeSummary \/ NarrativeSave
    \/ Finish

\* A run that has its graphs goes on to its end: the program is
\* sequential and a call of the narrative service returns or raises.
SpecRunFair == SpecRun /\ WF_vars(OutputSteps)

----------------------------------------------------------------------------
(* The run claims *)

\* C9: when the input file does not exist the run stops at the parse entry
\* point with the missing-file condition: no record, statistic or graph is
\* produced, and the run ends before the output directory or any output file
\* is created (main.py ends with status 1 at its own test of the file).
MissingFileStopsRun ==
    ~fileExists =>
        /\ papers = <<>> /\ parseState /= "done"
        /\ stats = None /\ coauth = None /\ inst = None /\ keyword = None
        /\ ~outputDir /\ artifacts = {}
        /\ pc \in {"check", "parse", "exit1", "raised"}
        /\ pc = "raised" => parseState = "raised"
        /\ pc = "exit1" => entry = "cli"

\* parse has raised for a missing file.
ParseRaisedForMissingFile ==
    ~fileExists /\ pc = "raised" /\ parseState = "raised" /\ log = <<"parse_raised">>

NarrativeCalls == {"client", "themes", "summary"}

\* The calls of the narrative service made so far that raised.
FailedCalls == {c \in NarrativeCalls : \E i \in 1..Len(log) : log[i] = c \o "_failed"}

TimesCalled(c) == Cardinality({i \in 1..Len(log) : log[i] \in {c, c \o "_failed"}})

\* C10: a failure of the narrative service (client construction, theme
\* analysis, summary generation) is caught where the call is made and shown as
\* a warning; no call is made twice; the run is not ended by it and goes on to
\* complete its final step, with no narrative report.
NarrativeFailureTolerated ==
    /\ [](/\ \A c \in NarrativeCalls : TimesCalled(c) <= 1
          /\ FailedCalls /= {} =>
                /\ "ai_failed" \in warnings
                /\ ai_report = None
                /\ "07_ai_report" \notin artifacts
                /\ pc \in {"finish", "done"}
                /\ pc = "done" => log[Len(log)] = "finish")
    /\ (FailedCalls /= {}) ~> (pc = "done")

\* The summary call failed after the theme call had returned, and the run
\* has completed.
SummaryFailedRunCompleted ==
    /\ "summary" \in FailedCalls
    /\ \E i \in 1..Len(log) : log[i] = "themes"
    /\ pc = "done"

\* C11: when parsing yields no valid record the parser returns an empty
\* sequence without error, and main and run_analysis both reject the run as a
\* validation failure before any graph is built and before any plot is drawn.
EmptyResultRejected ==
    (entry \in {"cli", "dashboard"} /\ stats /= None /\ stats[1].total = 0) =>
        /\ parseState = "done" /\ papers = <<>>
        /\ pc = "rejected" /\ "no_records" \in warnings
        /\ coauth = None /\ inst = None /\ keyword = None
        /\ \A i \in 1..Len(log) : log[i] /= "render"

\* The place of a logged event among the pipeline's stages in the order the
\* specification gives: narrative before rendering.  0: not one of them.
StageNarrativeFirst(e) ==
    CASE e = "parse" -> 1
      [] e = "stats" -> 2
      [] e \in {"build_coauthorship", "build_institution", "build_keywords"} -> 3
      [] e \in {"client", "themes", "summary", "save_report",
                 "client_failed", "themes_failed", "summary_failed",
                 "save_report_failed"} -> 4
      [] e = "render" -> 5
      [] OTHER -> 0

\* The same with rendering before the narrative calls.
StageRenderFirst(e) ==
    CASE StageNarrativeFirst(e) = 4 -> 5
      [] StageNarrativeFirst(e) = 5 -> 4
      [] OTHER -> StageNarrativeFirst(e)

\* The first event of a stage comes only after every event of the stages
\* before it, and no stage is entered again after a later one.
InStageOrder(stages) ==
    \A i, j \in 1..Len(stages) :
        (stages[i] /= 0 /\ stages[j] /= 0 /\ stages[i] < stages[j]) => i < j

NarrativeCalled == \E i \in 1..Len(log) : StageNarrativeFirst(log[i]) = 4

GraphsBuilt == coauth /= None /\ inst /= None /\ keyword /= None

Rendered == \E i \in 1..Len(log) : log[i] = "render"

\* C12 as stated: the steps happen in the order parse, statistics, network
\* construction, narrative call, rendering; a narrative call is made after
\* the three graphs are built and before any rendering.
NarrativeBeforeRendering ==
    /\ InStageOrder([i \in 1..Len(log) |-> StageNarrativeFirst(log[i])])
    /\ NarrativeCalled => GraphsBuilt

\* C12 amended: the steps happen in the order parse, statistics, network
\* construction, rendering, narrative call, one at a time; a narrative call
\* is made after the three graphs are built and after the plots are drawn.
NarrativeAfterRendering ==
    /\ InStageOrder([i \in 1..Len(log) |-> StageRenderFirst(log[i])])
    /\ NarrativeCalled => GraphsBuilt /\ Rendered
    /\ Rendered => GraphsBuilt
    /\ GraphsBuilt => stats /= None /\ parseState = "done"
    /\ Len(SelectSeq(log, LAMBDA e : e = "render")) <= 1

\* A run that called the narrative service, wrote its report and completed.
NarrativeRunCompleted ==
    pc = "done" /\ ai_report /= None /\ NarrativeCalled /\ Rendered

\* The graphs of the run with the file each network plot writes.
NetworkPlots ==
    {<<coauth, "01_coauthorship">>, <<inst, "02_institution">>, <<keyword, "03_keywords">>}

----------------------------------------------------------------------------
(* The record boundary and the leading block *)

\* The values of the %T lines of a text, line by line.
TitleLineValues(text) == Elems(FieldValues(text, <<"%", "T">>))

\* C17: a record block starts only at a line that begins with "%0" and
\* whitespace: the text is never cut inside a line, so no line is divided
\* between two blocks and every title returned is the whole value of a %T line.
BlocksStartAtLineStarts ==
    parseState = "done" =>
        /\ \A i \in RecordStarts(content) : i = 1 \/ content[i - 1] = "\n"
        /\ \A k \in 1..Len(papers) : papers[k].title \in TitleLineValues(content)

\* C18: what precedes the first record-start marker never gives a record:
\* the records returned are, one for one, the titled decoded blocks that
\* begin with the "%0" marker.
LeadingBlockDiscarded ==
    parseState = "done" =>
        LET titled == SelectSeq(DecodedBlocks(content), LAMBDA b : ~Untitled(b))
            marked == SelectSeq(titled, LAMBDA b : StartsWith(b, <<"%", "0">>))
        IN  /\ Len(papers) = Len(marked)
            /\ \A k \in 1..Len(marked) :
                   papers[k].title = LastValue(marked[k], <<"%", "T">>)

----------------------------------------------------------------------------
(* The institution graph and the node attributes *)

\* The pairs of different names that stand together in some list.
DistinctPairs(lists) ==
    {{u, v} : <<u, v>> \in
        {q \in UNION {Elems(lists[k]) \X Elems(lists[k]) : k \in 1..Len(lists)} :
            q[1] /= q[2]}}

\* C19: in the graph of build_institution only a record that lists at least
\* 2 distinct institutions contributes, one edge for each pair of its
\* institutions, so the edges are the pairs of distinct institutions listed
\* together and the nodes their endpoints; and each node's paper_count is the
\* number of records whose all_institutions holds it.
InstitutionGraphOfDistinctPairs ==
    inst /= None =>
        LET G == inst[1].G
            lists == InstitutionsOf(papers)
        IN  /\ DOMAIN G.edges = DistinctPairs(lists)
            /\ G.nodes = UNION DistinctPairs(lists)
            /\ \A n \in G.nodes :
                   G.attrs[n].paper_count = Cardinality(RecordsWithAll(lists, {n}))

\* The citations of the records among the first k that name the author.
RECURSIVE CitationsUpTo(_, _, _)
CitationsUpTo(ps, a, k) ==
    IF k = 0 THEN 0
    ELSE CitationsUpTo(ps, a, k - 1)
           + (IF a \in Elems(ps[k].authors) THEN ps[k].citations ELSE 0)

\* C20: in the graph of build_coauthorship(top_n) a node's paper_count is the
\* number of records of the whole corpus that name the author, and citations
\* is the sum of the citations of those records, each record counted once,
\* whatever top_n is.
NodeAttributesCountRecords ==
    coauth /= None =>
        LET G == coauth[1].G
        IN  \A n \in G.nodes :
                /\ G.attrs[n].paper_count = PaperCount(papers, n)
                /\ G.attrs[n].citations = CitationsUpTo(papers, n, Len(papers))

----------------------------------------------------------------------------
(* The statistics and the builders as calls on one corpus of objects *)

MaxCalls == 3

\* The records the calls are made on: one with a name twice in each list, one
\* without.
CallPool == {Paper(<<X, Y, X>>, 1998, 1, <<"J">>), Paper(<<Y, Z>>, 2001, 2, <<"K">>)}

CallCorpora == {c \in Corpora : \A k \in 1..Len(c) : c[k] \in CallPool}

\* the thresholds of the callers (top_n=50, min_freq=2 and 1) and a top_n
\* that cuts
CallTopN == {1, DefaultTopN}
CallMinFreq == {1, DefaultMinFreq}

\* The corpus as parse leaves it: record k holds its own three lists.
RECURSIVE HeapOf(_, _)
HeapOf(ps, k) ==
    IF k = 0 THEN <<>>
    ELSE HeapOf(ps, k - 1) \o <<ps[k].authors, ps[k].all_institutions, ps[k].keywords>>

RecordsOf(ps) ==
    [k \in 1..Len(ps) |-> [ps[k] EXCEPT !.authors = 3 * k - 2,
                                        !.all_institutions = 3 * k - 1,
                                        !.keywords = 3 * k]]

\* The same with one object kept for each operation and filled again by
\* each of its calls.
ObjectOfOperation(h, made, op) ==
    IF \E i \in 1..Len(made) : made[i].op = op
    THEN made[CHOOSE i \in 1..Len(made) : made[i].op = op].ref
    ELSE Len(h) + 1

\* G = nx.Graph() and stats = {...}: the object a call fills and returns is
\* made by the call.
NewObject(h, made, op) == Len(h) + 1

\* the object at r holds obj
Store(h, r, obj) == IF r > Len(h) THEN Append(h, obj) ELSE [h EXCEPT ![r] = obj]

\* What a call computes from the records it reads.
ResultOf(op, arg, ps) ==
    CASE op = "stats" -> Stats(ps)
      [] op = "build_coauthorship" -> build_coauthorship(ps, arg[1])
      [] op = "build_institution" -> build_institution(ps)
      [] op = "build_keywords" -> build_keywords(ps, arg[1])

\* self.papers = papers: the builder reads the records of its caller, and
\* the records read their lists, as they are when the call is made.
Call(op, arg) ==
    /\ Len(calls) < MaxCalls
    /\ LET r == NewObject(heap, calls, op)
       IN  /\ heap' = Store(heap, r, ResultOf(op, arg, DerefAll(heap, papers)))
           /\ calls' = Append(calls, [op |-> op, arg |-> arg, ref |-> r])
    /\ UNCHANGED <<parsed, coreVars, runVars>>

InitCalls ==
    /\ entry = "none"
    /\ argGiven = FALSE
    /\ apiKey = FALSE
    /\ pc = "library"
    /\ outputDir = FALSE
    /\ artifacts = {}
    /\ log = <<>>
    /\ warnings = {}
    /\ ai_report = None
    /\ parsed = <<>>
    /\ calls = <<>>
    /\ fileExists = TRUE
    /\ content = <<>>
    /\ \E c \in CallCorpora : papers = RecordsOf(c) /\ heap = HeapOf(c, Len(c))
    /\ parseState = "done"
    /\ stats = None
    /\ coauth = None
    /\ inst = None
    /\ keyword = None

CallStats == Call("stats", None)

CallCoauthorship == \E top_n \in CallTopN : Call("build_coauthorship", Some(top_n))

CallInstitution == Call("build_institution", None)

CallKeywords == \E min_freq \in CallMinFreq : Call("build_keywords", Some(min_freq))

NextCalls == CallStats \/ CallCoauthorship \/ CallInstitution \/ CallKeywords

SpecCalls == InitCalls /\ [][NextCalls]_vars

\* The lists the records of the corpus hold.
CorpusLists == UNION {ListsOf(papers[k]) : k \in 1..Len(papers)}

\* Each object returned is what its operation computes from the corpus and
\* the call's own argument, and is an object of that call alone.
ResultsDependOnCorpusAndArgument ==
    \A i \in 1..Len(calls) :
        /\ heap[calls[i].ref] = ResultOf(calls[i].op, calls[i].arg, DerefAll(heap, papers))
        /\ calls[i].ref \notin CorpusLists
        /\ \A j \in 1..Len(calls) : i /= j => calls[i].ref /= calls[j].ref

\* A step leaves the records, their lists and every object returned so far
\* as they were.
RecordsAndResultsKept ==
    /\ papers' = papers
    /\ \A r \in DOMAIN heap : r \in DOMAIN heap' /\ heap'[r] = heap[r]

\* C21: computing the statistics and running the three builders, in any order
\* and any number of times, leaves every record of the corpus unchanged; each
\* call returns a new object that depends only on the corpus and the call's
\* own threshold, whichever calls were made before it; and an object already
\* returned is not changed by later calls.
CallsArePure == []ResultsDependOnCorpusAndArgument /\ [][RecordsAndResultsKept]_vars

\* One builder was called twice with two thresholds, with another builder in
\* between, on a corpus where the two thresholds give two graphs and the
\* graph built in between has an edge.
BuilderCalledAgainWithOtherThreshold ==
    /\ Len(calls) = 3
    /\ calls[1].op = "build_keywords" /\ calls[3].op = "build_keywords"
    /\ calls[2].op = "build_coauthorship"
    /\ calls[1].arg /= calls[3].arg
    /\ heap[calls[1].ref] /= heap[calls[3].ref]
    /\ DOMAIN heap[calls[2].ref].edges /= {}
    /\ papers /= <<>>

----------------------------------------------------------------------------
(* The narrative report of a run *)

\* The calls of the narrative service made so far that returned.
ReturnedCalls == {c \in NarrativeCalls : \E i \in 1..Len(log) : log[i] = c}

\* The narrative step is inside its try block.
InNarrativeCalls == pc \in {"client", "themes", "summary", "save_report"}

NoNarrativeReport == ai_report = None /\ "07_ai_report" \notin artifacts

\* C22: the narrative report is all-or-nothing: the report is written, or
\* held to be shown, only in runs where the theme analysis and the summary
\* generation both returned; when the theme analysis returned and the summary
\* generation failed, no report file is written and no report is held; and
\* with no API key or fewer than 5 records no call of the narrative step is
\* made.
NarrativeAllOrNothing ==
    /\ ~NoNarrativeReport =>
          /\ {"themes", "summary"} \subseteq ReturnedCalls
          /\ FailedCalls = {}
          /\ entry \in {"cli", "dashboard"}
    /\ ("themes" \in ReturnedCalls /\ "summary" \in FailedCalls) => NoNarrativeReport
    /\ (~apiKey \/ Len(papers) < MinPapersForAI) =>
          /\ ReturnedCalls = {} /\ FailedCalls = {}
          /\ ~InNarrativeCalls
          /\ \A i \in 1..Len(log) : log[i] \notin {"save_report", "save_report_failed"}
          /\ NoNarrativeReport

\* On the dashboard the theme analysis returned, the summary generation
\* failed, and the run is at the step that shows the results.
ShowingResultsAfterSummaryFailed ==
    /\ entry = "dashboard" /\ pc = "finish"
    /\ apiKey /\ Len(papers) >= MinPapersForAI
    /\ "themes" \in ReturnedCalls /\ "summary" \in FailedCalls
    /\ log[Len(log)] = "summary_failed"

====
